---- MODULE Spec2Model ----
(***************************************************************************)
(* TaxClaw: the upload pipeline (main.py upload) over the document store   *)
(* (store.py, db.py), the page extractor (extract.py) and the text         *)
(* classifier (classify.py).                                               *)
(*                                                                         *)
(* Each upload request is a process; every db() block of the handler is    *)
(* its own SQLite transaction (db.py db()), and the model calls between    *)
(* them hold no lock, so the steps of requests served by different worker  *)
(* processes over the same database file interleave.                       *)
(*                                                                         *)
(* main.py calls store functions that store.py does not define             *)
(* (mark_needs_review, store_raw_extraction, store_extracted_fields,       *)
(* update_document_metadata) and imports a review module that is absent;   *)
(* these are modelled from the specification.  Where main.py passes an     *)
(* argument that the store.py definition does not take (mime_type,         *)
(* classification_confidence, needs_review), the definition's body is      *)
(* modelled as written and the extra argument has no effect.               *)
(***************************************************************************)
EXTENDS Integers, Sequences, FiniteSets, TLC

\* ------------------------------------------------------------------ bounds

\* Upload requests made in a run (each request slot is used once).
MaxUploads == 2

\* Largest number of transactions a 1099-DA extraction stores.
MaxTxns == 2

Reqs == 1..MaxUploads

\* The distinct file contents uploaded.
Bytes == {"B1", "B2"}

\* ------------------------------------------------------------- SQL values

\* SQL NULL of an INTEGER/REAL column.
NullInt == -1

\* SQL NULL of a TEXT column (distinct from the empty string).
NullText == "<NULL>"

\* str(e) of the exceptions a step can raise: an exception built without a
\* message (MemoryError(), AssertionError()) has the empty string.
ErrMsgs == {"", "boom"}

\* Notes a user types into the metadata form.
UserNotes == {"checked"}

DocTypes == {"1099-DA", "W-2"}

\* Classification confidences, in hundredths.
ClsConfs == {50, 90}

\* Overall confidences compute_overall_confidence returns, in hundredths.
OverallConfs == {40, 95}

\* ----------------------------------------------------------------- state

VARIABLES
    documents,         \* documents table: id -> row
    form_extractions,  \* form_extractions table: set of rows
    extracted_fields,  \* extracted_fields table: set of rows
    transactions,      \* transactions_1099da table: set of rows
    files,             \* paths present in the uploads directory
    req,               \* per upload request: position and locals
    ex,                \* one run of extract_document: inputs, loop position, locals
    cl,                \* one run of classify_document: input text, result
    gw,                \* one run of chat_json_from_image: response text, result
    cv,                \* one call of _bool_to_int: argument, result
    xp,                \* one run of an exporter: arguments, reads, output
    clock              \* CURRENT_TIMESTAMP, in seconds

vars == <<documents, form_extractions, extracted_fields, transactions, files, req, ex, cl,
          gw, cv, xp, clock>>

\* sha256_file: a collision-resistant digest of the bytes.
sha256_file(b) == <<"sha256", b>>

Hashes == {sha256_file(b) : b \in Bytes}

\* ingest_file: dest_name = f"{file_hash[:12]}_{original_filename}" where the
\* source is the temp file f"{uuid4()}_{file.filename}" written by upload, so
\* the basename carries the request's uuid (modelled by the request index).
ingest_dest(h, r) == <<h, r>>

NoExtraction == [isdict |-> FALSE, ntx |-> 0]

IdleReq == [pc |-> "start", file_hash |-> <<>>, dest_path |-> <<>>,
            doc_type |-> "", ccf |-> NullInt, doc_id |-> 0,
            extracted |-> NoExtraction, overall |-> NullInt, missing |-> {},
            nr |-> FALSE, outcome |-> "none", result |-> 0, err |-> NullText]

\* The store after init_db, and no request made yet.
StoreInit ==
    /\ documents = <<>>
    /\ form_extractions = {}
    /\ extracted_fields = {}
    /\ transactions = {}
    /\ files = {}
    /\ req = [r \in Reqs |-> IdleReq]

\* ------------------------------------------------------------- store.py

\* A lookup that never finds the row.
get_document_by_hash_miss(h) == 0

\* A lookup that still finds the document of a hash after its row is deleted.
get_document_by_hash_ever(h) ==
    IF \E r \in Reqs : req[r].doc_id = r /\ req[r].file_hash = h
    THEN CHOOSE r \in Reqs : req[r].doc_id = r /\ req[r].file_hash = h
    ELSE 0

\* get_document_by_hash: SELECT * FROM documents WHERE file_hash = ? (fetchone);
\* 0 stands for None.
get_document_by_hash(h) ==
    IF \E d \in DOMAIN documents : documents[d].file_hash = h
    THEN CHOOSE d \in DOMAIN documents : documents[d].file_hash = h
    ELSE 0

\* The column without its UNIQUE constraint.
UniqueViolation_off(h) == FALSE

\* documents.file_hash TEXT NOT NULL UNIQUE: the INSERT raises IntegrityError
\* when a row with the hash exists.
UniqueViolation(h) == \E d \in DOMAIN documents : documents[d].file_hash = h

\* The row create_document_record inserts (status 'processing').
NewDocument(id, path, h, dt) ==
    [id |-> id, file_path |-> path, file_hash |-> h, doc_type |-> dt,
     status |-> "processing",
     notes |-> NullText, needs_review |-> NullInt]

Put(f, k, v) == [x \in DOMAIN f \cup {k} |-> IF x = k THEN v ELSE f[x]]

Drop(f, k) == [x \in DOMAIN f \ {k} |-> f[x]]

\* UPDATE documents SET ... WHERE id=?: no row, no change.
UpdateDoc(id, row) == IF id \in DOMAIN documents THEN Put(documents, id, row) ELSE documents

\* An UPDATE that sets the columns but not the status.
mark_processed_nostatus(id) == documents

\* mark_processed: status='processed'; notes=COALESCE(NULL, notes) keeps the notes.
mark_processed(id) ==
    IF id \in DOMAIN documents
    THEN UpdateDoc(id, [documents[id] EXCEPT !.status = "processed"])
    ELSE documents

\* mark_needs_review(doc_id, notes=str(e)): the document goes to the
\* needs_review state with the error message recorded as its notes.
mark_needs_review(id, msg) ==
    IF id \in DOMAIN documents
    THEN UpdateDoc(id, [documents[id] EXCEPT !.status = "needs_review", !.notes = msg])
    ELSE documents

\* list_documents with no filter: every row of the documents table.
list_documents == DOMAIN documents

\* compute_needs_review thresholds, in hundredths.
OverallThreshold == 70
ClassificationThreshold == 70

\* compute_needs_review(classification_confidence, overall_confidence, missing_required).
compute_needs_review(cc, overall, missing) ==
    \/ overall < OverallThreshold
    \/ cc < ClassificationThreshold
    \/ missing # {}

Set(r, rec) == req' = [req EXCEPT ![r] = rec]

Finish(r, outcome, result) ==
    [IdleReq EXCEPT !.pc = "done", !.file_hash = req[r].file_hash,
                    !.doc_id = req[r].doc_id, !.outcome = outcome, !.result = result]

\* ------------------------------------------------------------ main.upload

\* upload, lines 245-255: write the temp file and ingest it.
Ingest(r) ==
    /\ req[r].pc = "start"
    /\ \E b \in Bytes :
        LET h == sha256_file(b) IN
        /\ files' = files \cup {ingest_dest(h, r)}
        /\ Set(r, [req[r] EXCEPT !.pc = "ingested", !.file_hash = h,
                                 !.dest_path = ingest_dest(h, r)])
    /\ UNCHANGED <<documents, form_extractions, extracted_fields, transactions, ex, cl, gw, cv, xp, clock>>

\* upload, lines 257-259: the dedup check.
DedupCheck(r) ==
    /\ req[r].pc = "ingested"
    /\ LET existing == get_document_by_hash(req[r].file_hash) IN
        IF existing # 0
        THEN Set(r, Finish(r, "duplicate", existing))
        ELSE Set(r, [req[r] EXCEPT !.pc = "checked"])
    /\ UNCHANGED <<documents, form_extractions, extracted_fields, transactions, files, ex, cl, gw, cv, xp, clock>>

\* upload, lines 261-265: page_count_for_pdf or classify_document raises
\* (unreadable file, Model Gateway failure in the vision fallback); nothing
\* catches it, the request ends with a server error.
ClassifyFails(r) ==
    /\ req[r].pc = "checked"
    /\ Set(r, Finish(r, "classify_error", 0))
    /\ UNCHANGED <<documents, form_extractions, extracted_fields, transactions, files, ex, cl, gw, cv, xp, clock>>

\* upload, lines 261-278: classification returns (it reads the file only) and
\* create_document_record runs its INSERT; the INSERT is outside the try
\* block, an IntegrityError ends the request with a server error.
ClassifyAndCreate(r) ==
    /\ req[r].pc = "checked"
    /\ \E dt \in DocTypes, cc \in ClsConfs :
        IF UniqueViolation(req[r].file_hash)
        THEN /\ Set(r, Finish(r, "integrity_error", 0))
             /\ UNCHANGED documents
        ELSE /\ documents' = Put(documents, r,
                    NewDocument(r, req[r].dest_path, req[r].file_hash, dt))
             /\ Set(r, [req[r] EXCEPT !.pc = "created", !.doc_id = r,
                                      !.doc_type = dt, !.ccf = cc])
    /\ UNCHANGED <<form_extractions, extracted_fields, transactions, files, ex, cl, gw, cv, xp, clock>>

\* extract_document as the pipeline sees it: 1099-DA always yields an object
\* with a transactions list; any other type yields an object, or the first
\* page's non-object result as-is (extract.py lines 216-220).
Extractions(dt) ==
    IF dt = "1099-DA"
    THEN {[isdict |-> TRUE, ntx |-> n] : n \in 0..MaxTxns}
    ELSE {[isdict |-> TRUE, ntx |-> 0], [isdict |-> FALSE, ntx |-> 0]}

\* Foreign key document_id REFERENCES documents(id) with PRAGMA foreign_keys=ON:
\* an INSERT for a document that was deleted meanwhile raises IntegrityError.
ForeignKeyOk(id) == id \in DOMAIN documents

\* upload, lines 281-282: extract_document returns and store_raw_extraction
\* inserts the form_extractions row (row ids are fresh uuids: one per request).
ExtractAndStoreRaw(r) ==
    /\ req[r].pc = "created"
    /\ ForeignKeyOk(req[r].doc_id)
    /\ \E x \in Extractions(req[r].doc_type) :
        /\ form_extractions' = form_extractions \cup
              {[id |-> r, document_id |-> req[r].doc_id]}
        /\ Set(r, [req[r] EXCEPT !.pc = "stored_raw", !.extracted = x])
    /\ UNCHANGED <<documents, extracted_fields, transactions, files, ex, cl, gw, cv, xp, clock>>

\* upload, line 283: store_extracted_fields writes the flattened fields.
StoreFields(r) ==
    /\ req[r].pc = "stored_raw"
    /\ ForeignKeyOk(req[r].doc_id)
    /\ extracted_fields' = extracted_fields \cup
          {[document_id |-> req[r].doc_id, section_id |-> r]}
    /\ Set(r, [req[r] EXCEPT !.pc = "stored_fields"])
    /\ UNCHANGED <<documents, form_extractions, transactions, files, ex, cl, gw, cv, xp, clock>>

\* store_1099da_transactions: one row per transaction object, in one db() block.
store_1099da_transactions(id, r, x) ==
    transactions \cup {[id |-> <<r, i>>, document_id |-> id] : i \in 1..x.ntx}

\* upload, lines 284-285.
StoreTransactions(r) ==
    /\ req[r].pc = "stored_fields"
    /\ IF req[r].doc_type = "1099-DA" /\ req[r].extracted.isdict
       THEN /\ req[r].extracted.ntx > 0 => ForeignKeyOk(req[r].doc_id)
            /\ transactions' = store_1099da_transactions(req[r].doc_id, r, req[r].extracted)
       ELSE UNCHANGED transactions
    /\ Set(r, [req[r] EXCEPT !.pc = "stored", !.doc_type = "",
                             !.extracted = [req[r].extracted EXCEPT !.ntx = 0]])
    /\ UNCHANGED <<documents, form_extractions, extracted_fields, files, ex, cl, gw, cv, xp, clock>>

\* upload, lines 287-308: the review computation, and for an object result the
\* UPDATE that stores overall_confidence and needs_review.
ReviewAndUpdate(r) ==
    /\ req[r].pc = "stored"
    /\ \E missing \in {{}, {"required"}}, overall \in OverallConfs :
        LET nr == compute_needs_review(req[r].ccf, overall, missing)
            id == req[r].doc_id IN
        /\ documents' =
              IF req[r].extracted.isdict /\ id \in DOMAIN documents
              THEN UpdateDoc(id, [documents[id] EXCEPT
                        !.needs_review = IF nr THEN 1 ELSE 0])
              ELSE documents
        /\ Set(r, [req[r] EXCEPT !.pc = "updated", !.nr = nr,
                                 !.overall = overall, !.missing = missing])
    /\ UNCHANGED <<form_extractions, extracted_fields, transactions, files, ex, cl, gw, cv, xp, clock>>

\* upload, lines 310 and 314.
MarkProcessed(r) ==
    /\ req[r].pc = "updated"
    /\ documents' = mark_processed(req[r].doc_id)
    /\ Set(r, [Finish(r, "processed", req[r].doc_id) EXCEPT
                    !.nr = req[r].nr, !.extracted = req[r].extracted])
    /\ UNCHANGED <<form_extractions, extracted_fields, transactions, files, ex, cl, gw, cv, xp, clock>>

TryBlock == {"created", "stored_raw", "stored_fields", "stored", "updated"}

\* upload, lines 311-314: a statement of the try block raises (the statement's
\* own db() block is not committed) and the handler marks the document.
UploadFails(r) ==
    /\ req[r].pc \in TryBlock
    /\ \E m \in ErrMsgs :
        /\ documents' = mark_needs_review(req[r].doc_id, m)
        /\ Set(r, [Finish(r, "failed", req[r].doc_id) EXCEPT !.err = m])
    /\ UNCHANGED <<form_extractions, extracted_fields, transactions, files, ex, cl, gw, cv, xp, clock>>

\* ----------------------------------------------------- the other handlers

\* The extracted_fields table is owned by its document: its rows are
\* cascade-deleted with the documents row.
cascade_extracted_fields(id) == {f \in extracted_fields : f.document_id # id}

\* A delete that removes the documents row only.
delete_document_row_only(id, removed) ==
    /\ transactions' = transactions
    /\ form_extractions' = form_extractions
    /\ documents' = Drop(documents, id)
    /\ extracted_fields' = extracted_fields
    /\ files' = IF id \in DOMAIN documents /\ removed
                THEN files \ {documents[id].file_path} ELSE files

\* delete_document: the three DELETEs in one db() block, then a best-effort
\* os.remove of the backing file; `removed` is false when os.remove raises
\* (the exception is swallowed, the rows stay deleted).
delete_document(id, removed) ==
    /\ transactions' = {t \in transactions : t.document_id # id}
    /\ form_extractions' = {e \in form_extractions : e.document_id # id}
    /\ documents' = Drop(documents, id)
    /\ extracted_fields' = cascade_extracted_fields(id)
    /\ files' = IF id \in DOMAIN documents /\ removed
                THEN files \ {documents[id].file_path} ELSE files

\* doc_delete.
DocDelete ==
    \E id \in DOMAIN documents, removed \in BOOLEAN :
        /\ delete_document(id, removed)
        /\ UNCHANGED <<req, ex, cl, gw, cv, xp, clock>>

\* doc_update -> update_document_metadata: the notes a user edits.
DocUpdate ==
    \E id \in DOMAIN documents, n \in UserNotes :
        /\ documents[id].notes # n
        /\ documents' = UpdateDoc(id, [documents[id] EXCEPT !.notes = n])
        /\ UNCHANGED <<form_extractions, extracted_fields, transactions, files, req, ex, cl, gw, cv, xp, clock>>

\* ------------------------------------------------------------ extract.py

\* Pages of a document.
MaxPages == 2

\* JSON values as the Model Gateway returns them, in one record shape.
JNull == [t |-> "null", s |-> <<>>]
JNum(n) == [t |-> "number", s |-> <<n>>]
JString(n) == [t |-> "string", s |-> <<n>>]
JList(items) == [t |-> "list", s |-> items]
\* An object value, identified by its content; JObject(<<>>) is {}.
JObject(content) == [t |-> "object", s |-> content]

\* Python truthiness, as `x or default` tests it.
Truthy(v) ==
    CASE v.t = "null" -> FALSE
      [] v.t = "number" -> v.s[1] # 0
      [] OTHER -> v.s # <<>>

\* x or default
Or(v, default) == IF Truthy(v) THEN v ELSE default

\* dict.get(k): None when the key is missing.
Get(d, k) == IF k \in DOMAIN d THEN d[k] ELSE JNull

\* A page result: an object (isdict, with its key -> value map d) or any
\* other JSON value.
DictPage(d) == [isdict |-> TRUE, d |-> d]
NonDictPage == [isdict |-> FALSE, d |-> <<>>]

Dicts(keys, values) == UNION {[S -> values] : S \in SUBSET keys}

MergeKeys == {"a", "b"}
MergeValues == {JNull, JNum(0), JNum(1), JNum(2)}
MergePages == {DictPage(d) : d \in Dicts(MergeKeys, MergeValues)} \cup {NonDictPage}

AggregateHeaders == {JNull, JObject(<<>>), JObject(<<1>>), JObject(<<2>>)}
AggregateTransactions ==
    {JNull, JString(1), JList(<<>>), JList(<<1>>), JList(<<2>>), JList(<<1, 2>>)}
AggregatePages ==
    {DictPage(d) : d \in
        {f \in Dicts({"header", "transactions"}, AggregateHeaders \cup AggregateTransactions) :
            /\ "header" \in DOMAIN f => f["header"] \in AggregateHeaders
            /\ "transactions" \in DOMAIN f => f["transactions"] \in AggregateTransactions}}
    \cup {NonDictPage}

SeqsUpTo(S, n) == UNION {[1..k -> S] : k \in 0..n}

\* The local `header` before any page set it (Python None).
NoHeader == JNull

ExRun(dt, pages) ==
    [doc_type |-> dt, pages |-> pages, i |-> 0, pc |-> "loop",
     merged |-> <<>>, header |-> NoHeader, txns |-> <<>>,
     ret |-> "none", is_multi_transaction |-> FALSE]

ExIdle == [ExRun("", <<>>) EXCEPT !.pc = "idle"]

ExStart ==
    {ExRun("1099-DA", ps) : ps \in SeqsUpTo(AggregatePages, MaxPages)}
    \cup {ExRun("W-2", ps) : ps \in SeqsUpTo(MergePages, MaxPages)}

\* A merge in which the later page always wins (dict.update).
_merge_page_dicts_update(base, update) ==
    [k \in DOMAIN base \cup DOMAIN update |->
        IF k \in DOMAIN update THEN update[k] ELSE base[k]]

\* _merge_page_dicts: update[k] is taken only where base has no k or holds None.
_merge_page_dicts(base, update) ==
    [k \in DOMAIN base \cup DOMAIN update |->
        IF k \in DOMAIN update /\ (k \notin DOMAIN base \/ base[k] = JNull)
        THEN update[k] ELSE base[k]]

\* An extend at the wrong end.
extend_front(txns, page_txns) == page_txns \o txns

\* txns.extend(page_txns)
extend(txns, page_txns) == txns \o page_txns

\* extract_document, one iteration of the 1099-DA loop (lines 195-202).
AggregatePage(e, out) ==
    LET header == IF e.header = NoHeader /\ out.isdict
                  THEN Or(Get(out.d, "header"), JObject(<<>>))
                  ELSE e.header
        page_txns == IF out.isdict
                     THEN Or(Get(out.d, "transactions"), JList(<<>>))
                     ELSE JList(<<>>)
    IN [e EXCEPT !.i = @ + 1,
                 !.header = header,
                 !.txns = IF page_txns.t = "list" THEN extend(@, page_txns.s) ELSE @]

\* extract_document, one iteration of the merge loop (lines 213-220).
MergePage(e, out) ==
    IF out.isdict
    THEN [e EXCEPT !.i = @ + 1, !.merged = _merge_page_dicts(@, out.d)]
    ELSE IF e.i = 0
         THEN [e EXCEPT !.i = @ + 1, !.pc = "returned", !.ret = "first_page"]
         ELSE [e EXCEPT !.i = @ + 1]

\* One page: render, call the Model Gateway, fold the result in.
ExtractPage ==
    /\ ex.pc = "loop"
    /\ ex.i < Len(ex.pages)
    /\ ex' = IF ex.doc_type = "1099-DA"
             THEN AggregatePage(ex, ex.pages[ex.i + 1])
             ELSE MergePage(ex, ex.pages[ex.i + 1])
    /\ UNCHANGED <<documents, form_extractions, extracted_fields, transactions, files, req, cl, gw, cv, xp, clock>>

\* chat_json_from_image raises on a page; extract_document does not catch it.
ExtractPageFails ==
    /\ ex.pc = "loop"
    /\ ex.i < Len(ex.pages)
    /\ ex' = [ex EXCEPT !.pc = "raised"]
    /\ UNCHANGED <<documents, form_extractions, extracted_fields, transactions, files, req, cl, gw, cv, xp, clock>>

\* The return after the loop (lines 204-208 and 221).
ExtractReturn ==
    /\ ex.pc = "loop"
    /\ ex.i = Len(ex.pages)
    /\ ex' = IF ex.doc_type = "1099-DA"
             THEN [ex EXCEPT !.pc = "returned", !.ret = "aggregate",
                             !.header = Or(@, JObject(<<>>)),
                             !.is_multi_transaction = Len(ex.txns) > 1]
             ELSE [ex EXCEPT !.pc = "returned", !.ret = "merged"]
    /\ UNCHANGED <<documents, form_extractions, extracted_fields, transactions, files, req, cl, gw, cv, xp, clock>>

\* ----------------------------------------------------------- classify.py

\* Phrases in the text of the first two pages.
MaxPhrases == 2

\* TEXT_SIGNALS: (needle, form type), in table order.
TEXT_SIGNALS ==
    << <<"1099-DA", "1099-DA">>,
       <<"OMB No. 1545-2298", "1099-DA">>,
       <<"W-2 Wage", "W-2">>,
       <<"Wage and Tax Statement", "W-2">>,
       <<"OMB No. 1545-0008", "W-2">>,
       <<"1099-NEC", "1099-NEC">>,
       <<"OMB No. 1545-0116", "1099-NEC">>,
       <<"1099-INT", "1099-INT">>,
       <<"OMB No. 1545-0112", "1099-INT">>,
       <<"1099-DIV", "1099-DIV">>,
       <<"OMB No. 1545-0110", "1099-DIV">>,
       <<"1099-R", "1099-R">>,
       <<"OMB No. 1545-0119", "1099-R">>,
       <<"1099-B", "1099-B">>,
       <<"OMB No. 1545-0715", "1099-B">>,
       <<"Schedule K-1", "K-1">>,
       <<"Form 1040", "1040">> >>

\* str.lower() on the strings that occur: the needles, and the phrases a
\* document's text is made of (needles as printed, in other letter case, and
\* phrases that hold no signal).
lower_table ==
    { <<"1099-DA", "1099-da">>,
      <<"OMB No. 1545-2298", "omb no. 1545-2298">>,
      <<"W-2 Wage", "w-2 wage">>,
      <<"Wage and Tax Statement", "wage and tax statement">>,
      <<"OMB No. 1545-0008", "omb no. 1545-0008">>,
      <<"1099-NEC", "1099-nec">>,
      <<"OMB No. 1545-0116", "omb no. 1545-0116">>,
      <<"1099-INT", "1099-int">>,
      <<"OMB No. 1545-0112", "omb no. 1545-0112">>,
      <<"1099-DIV", "1099-div">>,
      <<"OMB No. 1545-0110", "omb no. 1545-0110">>,
      <<"1099-R", "1099-r">>,
      <<"OMB No. 1545-0119", "omb no. 1545-0119">>,
      <<"1099-B", "1099-b">>,
      <<"OMB No. 1545-0715", "omb no. 1545-0715">>,
      <<"Schedule K-1", "schedule k-1">>,
      <<"Form 1040", "form 1040">>,
      <<"WAGE AND TAX STATEMENT", "wage and tax statement">>,
      <<"form 1099-nec", "form 1099-nec">>,
      <<"Omb No. 1545-0112", "omb no. 1545-0112">>,
      <<"Form 1099-MISC", "form 1099-misc">>,
      <<"Department of the Treasury", "department of the treasury">> }

lower(str) == (CHOOSE p \in lower_table : p[1] = str)[2]

Phrases == {p[1] : p \in lower_table}

\* The text of a document: its phrases joined by newlines.
RECURSIVE join(_)
join(phrases) ==
    IF phrases = <<>> THEN ""
    ELSE IF Len(phrases) = 1 THEN phrases[1]
    ELSE phrases[1] \o "\n" \o join(Tail(phrases))

\* text.lower(): lower-casing distributes over the joined phrases.
lower_text(phrases) == join([i \in 1..Len(phrases) |-> lower(phrases[i])])

\* needle in haystack
contains(haystack, needle) ==
    \E i \in 1..(Len(haystack) - Len(needle) + 1) :
        SubSeq(haystack, i, i + Len(needle) - 1) = needle

\* t.startswith(prefix)
startswith(t, prefix) == Len(t) >= Len(prefix) /\ SubSeq(t, 1, Len(prefix)) = prefix

\* The loop of lines 65-68: the types of the needles that hit, in table order.
RECURSIVE hits_from(_, _)
hits_from(i, text) ==
    IF i > Len(TEXT_SIGNALS) THEN <<>>
    ELSE (IF contains(text, lower(TEXT_SIGNALS[i][1]))
          THEN <<TEXT_SIGNALS[i][2]>> ELSE <<>>) \o hits_from(i + 1, text)

\* The form types in Python's string order (code points).
SortedTypes == << "1040", "1099-B", "1099-DA", "1099-DIV", "1099-INT", "1099-NEC", "1099-R", "K-1", "W-2" >>

InSeq(x, seq) == \E i \in 1..Len(seq) : seq[i] = x

RECURSIVE dedup(_)
dedup(seq) ==
    IF seq = <<>> THEN <<>>
    ELSE LET rest == dedup(SubSeq(seq, 1, Len(seq) - 1))
         IN IF InSeq(seq[Len(seq)], rest) THEN rest ELSE Append(rest, seq[Len(seq)])

\* The distinct hits in the order they were found, not sorted.
sorted_set_unsorted(hits) == dedup(hits)

\* sorted(set(hits))
sorted_set(hits) == SelectSeq(SortedTypes, LAMBDA t : InSeq(t, hits))

\* Lines 70-75: the result of a text hit; confidences in hundredths.
text_result(hits) ==
    LET uniq == sorted_set(hits) IN
    IF Len(uniq) >= 2 /\ \E i \in 1..Len(uniq) : startswith(uniq[i], "1099-")
    THEN [doc_type |-> "consolidated-1099", confidence |-> 85, method |-> "text"]
    ELSE [doc_type |-> uniq[1], confidence |-> 90, method |-> "text"]

\* What the Model Gateway returns for the classification prompt when it
\* returns an object: any of the three keys, a present key holding what the
\* prompt asks for, another value of the same type, or null.
VisionKeys == {"doc_type", "confidence", "method"}
VisionOuts ==
    {[keys |-> K,
      doc_type |-> IF "doc_type" \in K THEN dt ELSE NullText,
      confidence |-> IF "confidence" \in K THEN c ELSE NullInt,
      method |-> IF "method" \in K THEN m ELSE NullText] :
        K \in SUBSET VisionKeys, dt \in {"1099-INT", NullText}, c \in {30, NullInt},
        m \in {"vision", "ocr", NullText}}

\* No answer of the Model Gateway yet.
NoOut == [keys |-> {}, doc_type |-> NullText, confidence |-> NullInt, method |-> NullText]

\* out.setdefault(...), lines 83-85: only a missing key gets the default.
setdefaults(out) ==
    [doc_type |-> IF "doc_type" \in out.keys THEN out.doc_type ELSE "unknown",
     confidence |-> IF "confidence" \in out.keys THEN out.confidence ELSE 50,
     method |-> IF "method" \in out.keys THEN out.method ELSE "vision"]

NoResult == [doc_type |-> NullText, confidence |-> NullInt, method |-> NullText]

ClRun(phrases) ==
    [pc |-> "start", text |-> phrases, out |-> NoOut, result |-> NoResult, gateway_calls |-> 0]

ClIdle == [ClRun(<<>>) EXCEPT !.pc = "idle"]

ClStart == {ClRun(ps) : ps \in SeqsUpTo(Phrases, MaxPhrases)}

\* classify_document, lines 65-75: a text signal hits.
ClassifyText ==
    /\ cl.pc = "start"
    /\ LET hits == hits_from(1, lower_text(cl.text)) IN
        /\ hits # <<>>
        /\ cl' = [cl EXCEPT !.pc = "returned", !.result = text_result(hits)]
    /\ UNCHANGED <<documents, form_extractions, extracted_fields, transactions, files, req, ex, gw, cv, xp, clock>>

\* classify_document, lines 77-86: no signal hits, the vision fallback answers.
ClassifyVision ==
    /\ cl.pc = "start"
    /\ hits_from(1, lower_text(cl.text)) = <<>>
    /\ \E out \in VisionOuts :
        cl' = [cl EXCEPT !.pc = "returned", !.out = out, !.result = setdefaults(out),
                         !.gateway_calls = @ + 1]
    /\ UNCHANGED <<documents, form_extractions, extracted_fields, transactions, files, req, ex, gw, cv, xp, clock>>

\* classify_document, line 82: the Model Gateway raises in the vision fallback.
ClassifyVisionFails ==
    /\ cl.pc = "start"
    /\ hits_from(1, lower_text(cl.text)) = <<>>
    /\ cl' = [cl EXCEPT !.pc = "raised", !.gateway_calls = @ + 1]
    /\ UNCHANGED <<documents, form_extractions, extracted_fields, transactions, files, req, ex, gw, cv, xp, clock>>

\* classify_document, lines 82-83: the Model Gateway returns a JSON value that
\* is not an object, and out.setdefault raises.
ClassifyVisionNotObject ==
    /\ cl.pc = "start"
    /\ hits_from(1, lower_text(cl.text)) = <<>>
    /\ cl' = [cl EXCEPT !.pc = "raised_setdefault", !.gateway_calls = @ + 1]
    /\ UNCHANGED <<documents, form_extractions, extracted_fields, transactions, files, req, ex, gw, cv, xp, clock>>

\* ------------------------------------------------------------------ ai.py

\* The characters str.strip() removes that occur in the responses.
Whitespace == {" ", "\t", "\n", "\r"}

RECURSIVE lstrip(_)
lstrip(s) ==
    IF s = "" THEN ""
    ELSE IF SubSeq(s, 1, 1) \in Whitespace THEN lstrip(SubSeq(s, 2, Len(s))) ELSE s

RECURSIVE rstrip(_)
rstrip(s) ==
    IF s = "" THEN ""
    ELSE IF SubSeq(s, Len(s), Len(s)) \in Whitespace THEN rstrip(SubSeq(s, 1, Len(s) - 1)) ELSE s

\* text.strip()
strip(s) == rstrip(lstrip(s))

\* text.endswith(suffix)
endswith(t, suffix) ==
    Len(t) >= Len(suffix) /\ SubSeq(t, Len(t) - Len(suffix) + 1, Len(t)) = suffix

\* The positions where sub occurs in s.
Occurrences(s, sub) ==
    {i \in 1..(Len(s) - Len(sub) + 1) : SubSeq(s, i, i + Len(sub) - 1) = sub}

\* The code fence marker: three backticks.  A TLA+ string cannot hold a
\* backtick, so the character is written ~ (which occurs nowhere else in a
\* response).
Fence == "~~~"

\* A split that keeps the whole text.
split_tail_keep(s) == s

\* text.split("\n", 1)[-1]: what follows the first newline; the whole text
\* when it has no newline.
split_tail(s) ==
    LET at == Occurrences(s, "\n")
    IN IF at = {} THEN s
       ELSE SubSeq(s, (CHOOSE i \in at : \A j \in at : i <= j) + 1, Len(s))

\* text.rsplit(sep, 1)[0]: what precedes the last occurrence of sep.
rsplit_head(s, sep) ==
    LET at == Occurrences(s, sep)
    IN IF at = {} THEN s
       ELSE SubSeq(s, 1, (CHOOSE i \in at : \A j \in at : i >= j) - 1)

\* The JSON texts that occur and the value each denotes; two texts of the
\* same value differ in insignificant whitespace.
JsonTexts ==
    { <<"[1]", "list of 1">>,
      <<"[\n1\n]", "list of 1">>,
      <<"{}", "empty object">>,
      <<"[\n    1\n  ]", "list of 1">>,
      <<"null", "null">>,
      <<"[\"~~~\"]", "list of a string of three backticks">> }

NoValue == "<no value>"

\* json.loads: whitespace around the text is insignificant; a text that is
\* not JSON raises JSONDecodeError.
json_loads(s) ==
    LET t == strip(s)
    IN IF \E p \in JsonTexts : p[1] = t
       THEN [ok |-> TRUE, value |-> (CHOOSE p \in JsonTexts : p[1] = t)[2]]
       ELSE [ok |-> FALSE, value |-> NoValue]

\* chat_json_from_image, lines 58-65, on the text of the model's response.
parse_response(response) ==
    LET text1 == strip(response)
        text2 == IF startswith(text1, Fence)
                 THEN LET body == split_tail(text1)
                      IN strip(IF endswith(body, Fence) THEN rsplit_head(body, Fence) ELSE body)
                 ELSE text1
    IN json_loads(text2)

\* Responses: a JSON text, bare or after an opening marker, with optional
\* language tag, trailing marker and whitespace around each part.
GwParts ==
    {[lead |-> l, fence |-> TRUE, tag |-> t, sep |-> sp, json |-> j[1], mid |-> m,
      close |-> c, trail |-> tr] :
        l \in {"", " ", "\n"}, t \in {"", "json"}, sp \in {"\n", "\r\n", " ", ""},
        j \in JsonTexts, m \in {"", "\n", " "}, c \in BOOLEAN, tr \in {"", " ", "\n"}}
    \cup
    {[lead |-> l, fence |-> FALSE, tag |-> "", sep |-> "", json |-> j[1], mid |-> "",
      close |-> FALSE, trail |-> tr] :
        l \in {"", " ", "\n"}, j \in JsonTexts, tr \in {"", " ", "\n"}}

GwResponse(p) ==
    p.lead \o (IF p.fence THEN Fence \o p.tag \o p.sep ELSE "") \o p.json \o p.mid
           \o (IF p.close THEN Fence ELSE "") \o p.trail

GwRun(p) == [pc |-> "start", parts |-> p, text |-> GwResponse(p), value |-> NoValue]

GwIdle == [GwRun(CHOOSE p \in GwParts : ~p.fence /\ p.lead = "" /\ p.trail = "" /\ p.json = "{}")
              EXCEPT !.pc = "idle"]

GwStart == {GwRun(p) : p \in GwParts}

\* chat_json_from_image: the backend answers and the response is parsed.
ChatJson ==
    /\ gw.pc = "start"
    /\ LET out == parse_response(gw.text) IN
        gw' = [gw EXCEPT !.pc = IF out.ok THEN "returned" ELSE "raised_parse",
                         !.value = out.value]
    /\ UNCHANGED <<documents, form_extractions, extracted_fields, transactions, files, req, ex, cl, cv, xp, clock>>

\* chat_json_from_image: the backend call itself raises (lines 27 and 51).
ChatJsonCallFails ==
    /\ gw.pc = "start"
    /\ gw' = [gw EXCEPT !.pc = "raised_call"]
    /\ UNCHANGED <<documents, form_extractions, extracted_fields, transactions, files, req, ex, cl, cv, xp, clock>>

\* ----------------------------------------------- store.py: _bool_to_int

\* JSON true/false, and a JSON number with a fraction (in tenths).
JBool(b) == [t |-> "bool", s |-> <<b>>]
JFloat(tenths) == [t |-> "float", s |-> <<tenths>>]

\* _bool_to_int: None for None; 1/0 for a bool; `1 if v else 0` for any int
\* or float; None for everything else.
_bool_to_int(v) ==
    CASE v.t = "null" -> NullInt
      [] v.t = "bool" -> IF v.s[1] THEN 1 ELSE 0
      [] v.t \in {"number", "float"} -> IF v.s[1] # 0 THEN 1 ELSE 0
      [] OTHER -> NullInt

\* Values the model returns for a flag of a transaction.
FlagValues ==
    {JNull, JBool(TRUE), JBool(FALSE), JNum(0), JNum(1), JNum(2), JNum(-1),
     JFloat(0), JFloat(10), JFloat(5), JString(1), JList(<<>>), JObject(<<>>)}

\* Two of the flag columns of transactions_1099da.
FlagKeys == {"cash_only", "noncovered"}

CvRun(t) == [pc |-> "start", t |-> t, row |-> [k \in FlagKeys |-> NullInt]]

CvIdle == [CvRun(<<>>) EXCEPT !.pc = "idle"]

CvStart == {CvRun(t) : t \in Dicts(FlagKeys, FlagValues)}

\* store_1099da_transactions, lines 115-123: the flag columns of one row are
\* _bool_to_int(t.get(flag)).
CoerceFlags ==
    /\ cv.pc = "start"
    /\ cv' = [cv EXCEPT !.pc = "returned",
                        !.row = [k \in FlagKeys |-> _bool_to_int(Get(cv.t, k))]]
    /\ UNCHANGED <<documents, form_extractions, extracted_fields, transactions, files, req, ex, cl, gw, xp, clock>>

\* ------------------------------------------------------------ exporter.py

\* Documents in the store when an export runs.
MaxDocs == 2

\* Extraction records stored before an export runs.
MaxExtractions == 2

\* Seconds that pass while the records are stored.
MaxClock == 1

\* The values stored as extraction blobs, each with its text under
\* db.json_dumps (compact separators) and under json.dumps(indent=2) at the
\* `extraction` key of the export payload.
JsonDumps ==
    { <<"list of 1", "[1]", "[\n    1\n  ]">>,
      <<"empty object", "{}", "{}">>,
      <<"null", "null", "null">> }

JsonValues == {p[1] : p \in JsonDumps}

\* db.json_dumps
json_dumps(v) == (CHOOSE p \in JsonDumps : p[1] = v)[2]

\* json.dumps(payload, ensure_ascii=False, indent=2), for the extraction value
json_dumps_indent(v) == (CHOOSE p \in JsonDumps : p[1] = v)[3]

\* The distinct contents of the stored documents.
ExportBytes == <<"B1", "B2", "B3", "B4">>

\* The row of processed upload d.
ExportDocument(d) ==
    [NewDocument(d, ingest_dest(sha256_file(ExportBytes[d]), d), sha256_file(ExportBytes[d]), "W-2")
        EXCEPT !.status = "processed"]

\* The documents tables of the stores that hold some of the processed uploads
\* 1..MaxDocs (the others were deleted or never made).
ExportDocuments == {[d \in S |-> ExportDocument(d)] : S \in SUBSET (1..MaxDocs)}

NoPayload == [document_id |-> 0, extraction |-> NoValue, fields |-> <<>>]

XpRun == [pc |-> "start", fn |-> "", doc_id |-> 0, json |-> NoPayload,
          docs |-> <<>>, header |-> <<>>, rows |-> <<>>]

XpIdle == [XpRun EXCEPT !.pc = "idle"]

\* store_extraction: INSERT INTO form_extractions with raw_json = json_dumps(data);
\* created_at defaults to CURRENT_TIMESTAMP.  The row id is a uuid; the model
\* numbers the rows in the order they are stored.
StoreExtraction ==
    /\ xp.pc = "start"
    /\ Cardinality(form_extractions) < MaxExtractions
    /\ \E d \in DOMAIN documents, data \in JsonValues :
        form_extractions' = form_extractions \cup
            {[id |-> Cardinality(form_extractions) + 1, document_id |-> d,
              raw_json |-> json_dumps(data), created_at |-> clock]}
    /\ UNCHANGED <<documents, extracted_fields, transactions, files, req, ex, cl, gw, cv, xp, clock>>

\* A second passes.
Tick ==
    /\ xp.pc = "start"
    /\ clock < MaxClock
    /\ clock' = clock + 1
    /\ UNCHANGED <<documents, form_extractions, extracted_fields, transactions, files, req, ex, cl, gw, cv, xp>>

\* The rows SELECT ... ORDER BY created_at DESC LIMIT 1 may return: any row
\* with the greatest created_at (SQL leaves the order of ties unspecified).
latest_extractions(d) ==
    LET rows == {e \in form_extractions : e.document_id = d}
    IN {e \in rows : \A o \in rows : o.created_at <= e.created_at}

\* ORDER BY field_path ASC over the paths that occur.
SortedPaths == <<"header.payer_name", "payer_name", "wages">>

fields_of(d) ==
    SelectSeq(SortedPaths, LAMBDA path :
        \E f \in extracted_fields : f.document_id = d /\ f.field_path = path)

\* export_doc_json followed by json.loads of its result.
ExportDocJson ==
    /\ xp.pc = "start"
    /\ \E d \in 1..MaxDocs :
        IF d \notin DOMAIN documents
        THEN xp' = [xp EXCEPT !.pc = "raised", !.fn = "export_doc_json", !.doc_id = d]
        ELSE \E ext \in IF latest_extractions(d) = {} THEN {"null"}
                        ELSE {json_loads(e.raw_json).value : e \in latest_extractions(d)} :
                xp' = [xp EXCEPT !.pc = "returned", !.fn = "export_doc_json", !.doc_id = d,
                          !.json = [document_id |-> documents[d].id,
                                    extraction |-> json_loads(json_dumps_indent(ext)).value,
                                    fields |-> fields_of(d)]]
    /\ UNCHANGED <<documents, form_extractions, extracted_fields, transactions, files, req, ex, cl, gw, cv, clock>>

\* ------------------------------------------------- exporter.py: CSV exports

DOC_BASE_COLS ==
    <<"document_id", "doc_type", "tax_year", "filer", "payer_name", "recipient_name",
      "account_number", "classification_confidence", "overall_confidence",
      "needs_review", "created_at">>

ToSet(seq) == {seq[i] : i \in 1..Len(seq)}

\* The flattened field paths that occur.
Paths == ToSet(SortedPaths)

\* sorted(all_paths)
sorted_paths(S) == SelectSeq(SortedPaths, LAMBDA path : path \in S)

\* A documents row with its payer_name column (set by the upload from the
\* extraction's payer_name, or edited on the metadata form).
CsvDocument(d, payer) ==
    [c \in DOMAIN ExportDocument(d) \cup {"payer_name"} |->
        IF c = "payer_name" THEN payer ELSE ExportDocument(d)[c]]

Payers == {NullText, "Acme"}

CsvDocuments ==
    UNION {{[d \in S |-> CsvDocument(d, payer[d])] : payer \in [S -> Payers]} :
              S \in SUBSET (1..MaxDocs)}

\* The flattened field rows a store can hold for its documents: paths are
\* unique per document.
FieldRow(d, path) ==
    [document_id |-> d, section_id |-> d, field_path |-> path,
     field_value |-> "v", confidence |-> NullInt]

CsvFields(docs) == SUBSET {FieldRow(d, path) : d \in DOMAIN docs, path \in Paths}

\* _doc_row: the base columns of a document, as text (None is NullText).
\* Columns that uploads leave NULL and the model does not carry read as NULL.
_doc_row(doc) ==
    [c \in ToSet(DOC_BASE_COLS) |->
        CASE c = "document_id" -> ToString(doc.id)
          [] c = "doc_type" -> doc.doc_type
          [] c = "payer_name" -> doc.payer_name
          [] c = "needs_review" ->
                IF doc.needs_review = NullInt THEN NullText ELSE ToString(doc.needs_review)
          [] OTHER -> NullText]

\* The csv writer's text for a value: None is written as the empty string.
cell(v) == IF v = NullText THEN "" ELSE v

cell_int(n) == IF n = NullInt THEN "" ELSE ToString(n)

\* dict.update / item assignment.
update(base, other) ==
    [k \in DOMAIN base \cup DOMAIN other |-> IF k \in DOMAIN other THEN other[k] ELSE base[k]]

\* The field rows of a document as a dict path -> value.
field_values(d) ==
    LET rows == {f \in extracted_fields : f.document_id = d}
    IN [path \in {f.field_path : f \in rows} |->
            (CHOOSE f \in rows : f.field_path = path).field_value]

\* csv.DictWriter.writerow: one cell per fieldname, in order.
writerow(fieldnames, out) == [i \in 1..Len(fieldnames) |-> cell(out[fieldnames[i]])]

\* SELECT * FROM documents ORDER BY created_at DESC: the rows in an order that
\* the timestamps decide (any order for rows of the same second).
Orderings(S) ==
    {seq \in [1..Cardinality(S) -> S] : \A i, j \in 1..Cardinality(S) : seq[i] = seq[j] => i = j}

\* export_all_csv_wide, lines 146-160: the first db() block reads the
\* documents and collects the paths; the header is written.
ExportAllCsvWideCollect ==
    /\ xp.pc = "start"
    /\ \E order \in Orderings(DOMAIN documents) :
        LET docs == [i \in 1..Len(order) |-> documents[order[i]]]
            all_paths == UNION {DOMAIN field_values(docs[i].id) : i \in 1..Len(docs)}
        IN xp' = [xp EXCEPT !.pc = "collected", !.fn = "export_all_csv_wide",
                            !.docs = docs,
                            !.header = DOC_BASE_COLS \o sorted_paths(all_paths)]
    /\ UNCHANGED <<documents, form_extractions, extracted_fields, transactions, files, req, ex, cl, gw, cv, clock>>

\* The dict of one row of the wide export (lines 164-171).
wide_row(headers, d) ==
    update(update([h \in ToSet(headers) |-> ""], _doc_row(d)), field_values(d.id))

\* export_all_csv_wide, lines 162-174: the second db() block reads each
\* document's fields and writes its row; DictWriter raises ValueError for a
\* key that is not a fieldname.
ExportAllCsvWideWrite ==
    /\ xp.pc = "collected"
    /\ IF \E i \in 1..Len(xp.docs) :
            ~(DOMAIN wide_row(xp.header, xp.docs[i]) \subseteq ToSet(xp.header))
       THEN xp' = [xp EXCEPT !.pc = "raised"]
       ELSE xp' = [xp EXCEPT !.pc = "returned",
                     !.rows = [i \in 1..Len(xp.docs) |->
                                  writerow(xp.header, wide_row(xp.header, xp.docs[i]))]]
    /\ UNCHANGED <<documents, form_extractions, extracted_fields, transactions, files, req, ex, cl, gw, cv, clock>>

\* store_extracted_fields(doc_id, section_id, data): one extracted_fields row
\* per scalar leaf of the extraction, under its dotted path.
store_extracted_fields(d, paths) ==
    extracted_fields \cup {FieldRow(d, path) : path \in paths}

\* upload, line 283, in a request that runs while an export is in progress:
\* the flattened fields of a document already created are committed.
UploadStoresFields ==
    /\ \E d \in DOMAIN documents :
         \E paths \in (SUBSET (Paths \ DOMAIN field_values(d))) \ {{}} :
            extracted_fields' = store_extracted_fields(d, paths)
    /\ UNCHANGED <<documents, form_extractions, transactions, files, req, ex, cl, gw, cv, xp, clock>>

\* list(flat.keys()) of export_doc_csv_wide: the base columns, then the paths
\* that are not base columns, in the order the fields were read.
flat_keys(d) ==
    DOC_BASE_COLS \o
        SelectSeq(fields_of(d), LAMBDA path : path \notin ToSet(DOC_BASE_COLS))

\* export_doc_csv_wide.
ExportDocCsvWide ==
    /\ xp.pc = "start"
    /\ \E d \in 1..MaxDocs :
        IF d \notin DOMAIN documents
        THEN xp' = [xp EXCEPT !.pc = "raised", !.fn = "export_doc_csv_wide", !.doc_id = d]
        ELSE LET flat == update(_doc_row(documents[d]), field_values(d))
             IN xp' = [xp EXCEPT !.pc = "returned", !.fn = "export_doc_csv_wide",
                          !.doc_id = d, !.docs = <<documents[d]>>,
                          !.header = flat_keys(d),
                          !.rows = <<writerow(flat_keys(d), flat)>>]
    /\ UNCHANGED <<documents, form_extractions, extracted_fields, transactions, files, req, ex, cl, gw, cv, clock>>

LongHeaders == DOC_BASE_COLS \o <<"field_path", "field_value", "confidence">>

\* The row dict of a long export for one field of a document.
long_row(doc, path) ==
    LET f == CHOOSE f \in extracted_fields : f.document_id = doc.id /\ f.field_path = path
    IN update(_doc_row(doc),
              [field_path |-> path, field_value |-> f.field_value,
               confidence |-> cell_int(f.confidence)])

\* The rows written for one document: one per field, in path order.
long_rows(doc) ==
    [i \in 1..Len(fields_of(doc.id)) |->
        writerow(LongHeaders, long_row(doc, fields_of(doc.id)[i]))]

\* export_doc_csv_long: a row per field row of the document.
ExportDocCsvLong ==
    /\ xp.pc = "start"
    /\ \E d \in 1..MaxDocs :
        IF d \notin DOMAIN documents
        THEN xp' = [xp EXCEPT !.pc = "raised", !.fn = "export_doc_csv_long", !.doc_id = d]
        ELSE xp' = [xp EXCEPT !.pc = "returned", !.fn = "export_doc_csv_long",
                      !.doc_id = d, !.docs = <<documents[d]>>,
                      !.header = LongHeaders,
                      !.rows = long_rows(documents[d])]
    /\ UNCHANGED <<documents, form_extractions, extracted_fields, transactions, files, req, ex, cl, gw, cv, clock>>

\* The row export_all_csv_long writes for a document without field rows.
empty_long_row(doc) ==
    writerow(LongHeaders,
             update(_doc_row(doc), [field_path |-> "", field_value |-> "", confidence |-> ""]))

RECURSIVE all_long_rows(_)
all_long_rows(docs) ==
    IF docs = <<>> THEN <<>>
    ELSE (IF fields_of(Head(docs).id) = <<>>
          THEN <<empty_long_row(Head(docs))>>
          ELSE long_rows(Head(docs))) \o all_long_rows(Tail(docs))

\* export_all_csv_long: one db() block.
ExportAllCsvLong ==
    /\ xp.pc = "start"
    /\ \E order \in Orderings(DOMAIN documents) :
        LET docs == [i \in 1..Len(order) |-> documents[order[i]]]
        IN xp' = [xp EXCEPT !.pc = "returned", !.fn = "export_all_csv_long",
                            !.docs = docs, !.header = LongHeaders,
                            !.rows = all_long_rows(docs)]
    /\ UNCHANGED <<documents, form_extractions, extracted_fields, transactions, files, req, ex, cl, gw, cv, clock>>

Upload(r) ==
    \/ Ingest(r)
    \/ DedupCheck(r)
    \/ ClassifyFails(r)
    \/ ClassifyAndCreate(r)
    \/ ExtractAndStoreRaw(r)
    \/ StoreFields(r)
    \/ StoreTransactions(r)
    \/ ReviewAndUpdate(r)
    \/ MarkProcessed(r)
    \/ UploadFails(r)

Next ==
    \/ \E r \in Reqs : Upload(r)
    \/ DocDelete
    \/ DocUpdate

Init == StoreInit /\ ex = ExIdle /\ cl = ClIdle /\ gw = GwIdle /\ cv = CvIdle /\ xp = XpIdle /\ clock = 0

Spec == Init /\ [][Next]_vars

\* Runs of extract_document over every bounded sequence of page results.
InitExtract ==
    StoreInit /\ ex \in ExStart /\ cl = ClIdle /\ gw = GwIdle /\ cv = CvIdle /\ xp = XpIdle /\ clock = 0

NextExtract ==
    \/ ExtractPage
    \/ ExtractPageFails
    \/ ExtractReturn

SpecExtract == InitExtract /\ [][NextExtract]_vars

\* Runs of classify_document over every bounded text.
InitClassify ==
    StoreInit /\ ex = ExIdle /\ cl \in ClStart /\ gw = GwIdle /\ cv = CvIdle /\ xp = XpIdle /\ clock = 0

NextClassify ==
    \/ ClassifyText
    \/ ClassifyVision
    \/ ClassifyVisionFails
    \/ ClassifyVisionNotObject

SpecClassify == InitClassify /\ [][NextClassify]_vars

\* Runs of chat_json_from_image over every bounded response.
InitGateway ==
    StoreInit /\ ex = ExIdle /\ cl = ClIdle /\ gw \in GwStart /\ cv = CvIdle /\ xp = XpIdle /\ clock = 0

NextGateway ==
    \/ ChatJson
    \/ ChatJsonCallFails

SpecGateway == InitGateway /\ [][NextGateway]_vars

\* Runs of the flag coercion over every bounded transaction object.
InitCoerce ==
    StoreInit /\ ex = ExIdle /\ cl = ClIdle /\ gw = GwIdle /\ cv \in CvStart /\ xp = XpIdle /\ clock = 0

NextCoerce == CoerceFlags

SpecCoerce == InitCoerce /\ [][NextCoerce]_vars

\* Extraction records stored for the documents of a store, then an export.
InitExportJson ==
    /\ documents \in ExportDocuments
    /\ form_extractions = {}
    /\ extracted_fields = {}
    /\ transactions = {}
    /\ files = {documents[d].file_path : d \in DOMAIN documents}
    /\ req = [r \in Reqs |-> IdleReq]
    /\ ex = ExIdle /\ cl = ClIdle /\ gw = GwIdle /\ cv = CvIdle
    /\ xp = XpRun
    /\ clock = 0

NextExportJson ==
    \/ StoreExtraction
    \/ Tick
    \/ ExportDocJson

SpecExportJson == InitExportJson /\ [][NextExportJson]_vars

\* A CSV export over every bounded store of documents and flattened fields.
InitExportCsv ==
    /\ documents \in CsvDocuments
    /\ extracted_fields \in CsvFields(documents)
    /\ form_extractions = {}
    /\ transactions = {}
    /\ files = {documents[d].file_path : d \in DOMAIN documents}
    /\ req = [r \in Reqs |-> IdleReq]
    /\ ex = ExIdle /\ cl = ClIdle /\ gw = GwIdle /\ cv = CvIdle
    /\ xp = XpRun
    /\ clock = 0

NextExportCsv ==
    \/ ExportAllCsvWideCollect
    \/ ExportAllCsvWideWrite
    \/ ExportDocCsvWide
    \/ ExportDocCsvLong
    \/ ExportAllCsvLong

SpecExportCsv == InitExportCsv /\ [][NextExportCsv]_vars

\* export_all_csv_wide interleaved with the requests of other threads: its two
\* db() blocks are two steps, and an upload's field store or a delete may
\* commit before, between or after them.
NextExportCsvWrites ==
    \/ ExportAllCsvWideCollect
    \/ ExportAllCsvWideWrite
    \/ UploadStoresFields
    \/ DocDelete

SpecExportCsvWrites == InitExportCsv /\ [][NextExportCsvWrites]_vars

\* --------------------------------------------------------------- claims

Created(r) == req[r].doc_id = r

SameBytes(r1, r2) ==
    /\ req[r1].pc # "start"
    /\ req[r2].pc # "start"
    /\ req[r1].file_hash = req[r2].file_hash

\* C1: when the bytes of an upload were uploaded before and the document that
\* upload created has not been deleted, the dedup check ends the second upload
\* with that document's id, and adds no extraction record, no transaction row
\* and no document.
C1_SecondUploadReturnsExisting ==
    [][\A r, first \in Reqs :
          ( /\ req[r].pc = "ingested"
            /\ req'[r].pc # "ingested"
            /\ first # r
            /\ Created(first)
            /\ first \in DOMAIN documents
            /\ SameBytes(r, first) )
          => /\ req'[r].pc = "done"
             /\ req'[r].outcome = "duplicate"
             /\ req'[r].result = first
             /\ form_extractions' = form_extractions
             /\ transactions' = transactions
             /\ documents' = documents]_vars

\* C1 witness: an upload ended as a duplicate of a document that owns an
\* extraction record and transactions.
C1_Witness ==
    \E r \in Reqs :
        /\ req[r].outcome = "duplicate"
        /\ req[r].result \in DOMAIN documents
        /\ \E e \in form_extractions : e.document_id = req[r].result
        /\ \E t \in transactions : t.document_id = req[r].result

\* C2: no two rows of the documents table have the same content hash.
C2_HashUnique ==
    \A d1, d2 \in DOMAIN documents :
        documents[d1].file_hash = documents[d2].file_hash => d1 = d2

\* C2 witness: two uploads of the same bytes both passed the dedup check; one
\* holds the document, the other's INSERT was rejected.
C2_Witness ==
    \E r1, r2 \in Reqs :
        /\ r1 # r2
        /\ SameBytes(r1, r2)
        /\ req[r1].outcome = "integrity_error"
        /\ r2 \in DOMAIN documents

\* C3: the dedup check and the insert are atomic: never have two uploads of
\* the same bytes both found no document and both attempted the INSERT (the
\* second attempt is the one the UNIQUE constraint rejects).
C3_DedupAndInsertAtomic ==
    ~ \E r1, r2 \in Reqs :
        /\ r1 # r2
        /\ SameBytes(r1, r2)
        /\ Created(r2)
        /\ req[r1].outcome = "integrity_error"

Ended(r) == req[r].pc = "done" /\ req[r].outcome \in {"processed", "failed"}

NrColumn(b) == IF b THEN 1 ELSE 0

C5_LeavesProcessing ==
    \A r \in Reqs :
        (Ended(r) /\ r \in DOMAIN documents)
          => /\ documents[r].status \in {"processed", "needs_review"}
             /\ req[r].outcome = "failed"
                   => /\ documents[r].status = "needs_review"
                      /\ documents[r].notes \notin {NullText, ""}

\* C6: when a step after ingestion fails for a file that is not a duplicate,
\* a document for the file exists at the end of the upload, is listed, is in
\* needs_review, and its notes hold the error message.
C6_FailedUploadIsListed ==
    [][\A r \in Reqs :
          ( /\ req[r].pc \in {"checked"} \cup TryBlock
            /\ req'[r].pc = "done"
            /\ req'[r].outcome \in {"classify_error", "failed"}
            /\ Created(r) => r \in DOMAIN documents )
          => \E d \in list_documents' :
                /\ documents'[d].file_hash = req[r].file_hash
                /\ documents'[d].status = "needs_review"
                /\ req'[r].outcome = "failed" => documents'[d].notes = req'[r].err]_vars

Min(S) == CHOOSE x \in S : \A y \in S : x <= y

AllDict(pages) == \A i \in 1..Len(pages) : pages[i].isdict

\* The value of k on the earliest page that has k non-null; null if none has.
FirstNonNull(pages, k) ==
    LET at == {i \in 1..Len(pages) : k \in DOMAIN pages[i].d /\ pages[i].d[k] # JNull}
    IN IF at = {} THEN JNull ELSE pages[Min(at)].d[k]

\* C7: for a form type other than 1099-DA and pages that are all objects, the
\* result's keys are the union of the pages' keys and each key holds its value
\* from the earliest page where it is non-null (null if there is none); and a
\* key that is non-null in the accumulator is never changed by a later page.
C7_MergeFirstNonNullWins ==
    /\ [](( /\ ex.pc = "returned"
            /\ ex.doc_type # "1099-DA"
            /\ AllDict(ex.pages) )
          => /\ ex.ret = "merged"
             /\ DOMAIN ex.merged = UNION {DOMAIN ex.pages[i].d : i \in 1..Len(ex.pages)}
             /\ \A k \in DOMAIN ex.merged : ex.merged[k] = FirstNonNull(ex.pages, k))
    /\ [][\A k \in DOMAIN ex.merged :
              ex.merged[k] # JNull => (k \in DOMAIN ex'.merged /\ ex'.merged[k] = ex.merged[k])]_vars

\* C7 witness: pages [{a: null, b: 1}, {a: 2, b: 0}] merged to {a: 2, b: 1}.
C7_Witness ==
    /\ ex.pc = "returned"
    /\ ex.doc_type # "1099-DA"
    /\ ex.pages = <<DictPage([a |-> JNull, b |-> JNum(1)]), DictPage([a |-> JNum(2), b |-> JNum(0)])>>
    /\ ex.merged = [a |-> JNum(2), b |-> JNum(1)]

\* The transactions list of a page: its `transactions` when the page is an
\* object that holds a list there, else none.
PageTransactions(page) ==
    IF page.isdict /\ "transactions" \in DOMAIN page.d /\ page.d["transactions"].t = "list"
    THEN page.d["transactions"].s ELSE <<>>

RECURSIVE Concatenation(_)
Concatenation(pages) ==
    IF pages = <<>> THEN <<>>
    ELSE PageTransactions(Head(pages)) \o Concatenation(Tail(pages))

RECURSIVE TransactionCount(_)
TransactionCount(pages) ==
    IF pages = <<>> THEN 0
    ELSE Len(PageTransactions(Head(pages))) + TransactionCount(Tail(pages))

\* C8: for 1099-DA the returned transactions are the pages' transaction lists
\* concatenated in page order, and is_multi_transaction is true exactly when
\* there is more than one.
C8_AggregateInPageOrder ==
    (ex.pc = "returned" /\ ex.doc_type = "1099-DA")
      => /\ ex.ret = "aggregate"
         /\ ex.txns = Concatenation(ex.pages)
         /\ Len(ex.txns) = TransactionCount(ex.pages)
         /\ ex.is_multi_transaction <=> (TransactionCount(ex.pages) > 1)

\* C8 witness: two pages with one transaction each, returned in page order.
C8_Witness ==
    /\ ex.pc = "returned"
    /\ ex.doc_type = "1099-DA"
    /\ Len(ex.pages) = 2
    /\ PageTransactions(ex.pages[1]) = <<2>>
    /\ PageTransactions(ex.pages[2]) = <<1>>
    /\ ex.txns = <<2, 1>>
    /\ ex.is_multi_transaction

HasHeader(page) == page.isdict /\ Truthy(Get(page.d, "header"))

\* The header of the first page that returns one; {} when no page does.
FirstHeader(pages) ==
    LET at == {i \in 1..Len(pages) : HasHeader(pages[i])}
    IN IF at = {} THEN JObject(<<>>) ELSE pages[Min(at)].d["header"]

\* C9: for 1099-DA the returned header is the header of the first page whose
\* result contains one; earlier pages without a header do not prevent it.
C9_HeaderFromFirstPageWithOne ==
    (ex.pc = "returned" /\ ex.doc_type = "1099-DA") => ex.header = FirstHeader(ex.pages)

\* The form types whose signals occur in the text, case-insensitively.
Matched(phrases) ==
    {TEXT_SIGNALS[i][2] : i \in {j \in 1..Len(TEXT_SIGNALS) :
        contains(lower_text(phrases), lower(TEXT_SIGNALS[j][1]))}}

Rank(t) == CHOOSE i \in 1..Len(SortedTypes) : SortedTypes[i] = t

Family1099 == {"1099-DA", "1099-NEC", "1099-INT", "1099-DIV", "1099-R", "1099-B"}

Parsed == gw.pc \in {"returned", "raised_parse"}

\* C11 as stated: a response that is a JSON text J after an opening
\* triple-backtick marker with optional language tag, with an optional trailing
\* marker and any whitespace around the parts, parses to the value that the
\* response J parses to.
C11_FencedParsesAsBare ==
    Parsed => /\ gw.pc = "returned"
              /\ gw.value = parse_response(gw.parts.json).value

\* C11 amended: the fenced response parses to the value of the bare J when a
\* newline ends the line of the opening marker; when J starts on the marker's
\* own line the response does not parse.
C11_FenceLineParsesAsBare ==
    Parsed =>
        IF gw.parts.fence /\ ~contains(gw.parts.sep, "\n")
        THEN gw.pc = "raised_parse"
        ELSE /\ gw.pc = "returned"
             /\ parse_response(gw.parts.json).ok
             /\ gw.value = parse_response(gw.parts.json).value

\* C11 witness: a response with both markers and a language tag, each on its
\* own line, parsed to the value of the JSON text between them.
C11_Witness ==
    /\ gw.pc = "returned"
    /\ gw.text = Fence \o "json\n[1]\n" \o Fence
    /\ gw.value = "list of 1"

RefersTo(id) ==
    \/ \E e \in form_extractions : e.document_id = id
    \/ \E t \in transactions : t.document_id = id
    \/ \E f \in extracted_fields : f.document_id = id

Copies(h) == {f \in files : f[1] = h}

\* C13: whatever number of uploads ingested files of the same content, the
\* uploads directory holds one stored copy of that content, and the ingestions
\* returned the same stored path.
C13_OneStoredCopy ==
    /\ \A h \in Hashes : Cardinality(Copies(h)) <= 1
    /\ \A r1, r2 \in Reqs :
          (req[r1].pc = "ingested" /\ req[r2].pc = "ingested"
             /\ req[r1].file_hash = req[r2].file_hash)
            => req[r1].dest_path = req[r2].dest_path

\* The flag the claim assigns to a value: 1 for true and the number 1, 0 for
\* false and the number 0, absent for null and for every other value.
TriState(v) ==
    CASE v.t = "bool" -> IF v.s[1] THEN 1 ELSE 0
      [] v.t = "number" /\ v.s[1] \in {0, 1} -> v.s[1]
      [] v.t = "float" /\ v.s[1] \in {0, 10} -> v.s[1] \div 10
      [] OTHER -> NullInt

\* C14: the coercion returns 1, 0 or absent for every value: 1 for true and
\* 1, 0 for false and 0, absent for null and for every other value, numbers
\* other than 0 and 1 included.
C14_BoolToIntTriState ==
    cv.pc = "returned" =>
        \A k \in FlagKeys :
            /\ cv.row[k] \in {1, 0, NullInt}
            /\ cv.row[k] = TriState(Get(cv.t, k))

\* The blob of the extraction record stored last for d; null when none is stored.
LastStored(d) ==
    LET rows == {e \in form_extractions : e.document_id = d}
    IN IF rows = {} THEN "null"
       ELSE json_loads((CHOOSE e \in rows : \A o \in rows : o.id <= e.id).raw_json).value

\* C15: the re-parsed result of export_doc_json(d) has document.id = d and an
\* extraction equal to the blob of the record stored last for d, also when
\* records were stored within the same second.
C15_ExportJsonRoundTrip ==
    (xp.pc = "returned" /\ xp.fn = "export_doc_json")
      => /\ xp.json.document_id = xp.doc_id
         /\ xp.json.extraction = LastStored(xp.doc_id)

\* The flattened field paths of document d, and of all documents.
DocPaths(d) == {f.field_path : f \in {g \in extracted_fields : g.document_id = d}}

AllPaths == UNION {DocPaths(d) : d \in DOMAIN documents}

PathRank(path) == CHOOSE i \in 1..Len(SortedPaths) : SortedPaths[i] = path

NBase == Len(DOC_BASE_COLS)

\* The rows of the export that belong to document d.
RowsOf(d) == {i \in 1..Len(xp.rows) : xp.rows[i][1] = ToString(d)}

\* C16: the all-documents wide export has for header the base columns followed
\* by the sorted union of the documents' field paths, one row per document,
\* every row as wide as the header, and the empty string in a document's cell
\* for a path the document does not have.
C16_WideHeaderAndRows ==
    (xp.fn = "export_all_csv_wide" /\ xp.pc \in {"returned", "raised"})
      => /\ xp.pc = "returned"
         /\ SubSeq(xp.header, 1, NBase) = DOC_BASE_COLS
         /\ {xp.header[j] : j \in (NBase + 1)..Len(xp.header)} = AllPaths
         /\ \A j, k \in (NBase + 1)..Len(xp.header) :
                j < k => PathRank(xp.header[j]) < PathRank(xp.header[k])
         /\ \A d \in DOMAIN documents : Cardinality(RowsOf(d)) = 1
         /\ Len(xp.rows) = Cardinality(DOMAIN documents)
         /\ \A i \in 1..Len(xp.rows) :
                /\ Len(xp.rows[i]) = Len(xp.header)
                /\ \A j \in (NBase + 1)..Len(xp.header) :
                      xp.header[j] \notin DocPaths(xp.docs[i].id) => xp.rows[i][j] = ""

\* C17: a long export has one data row per (document, field) pair, and one
\* data row with empty field_path, field_value and confidence for a document
\* without fields.
C17_LongRows ==
    (xp.fn \in {"export_doc_csv_long", "export_all_csv_long"} /\ xp.pc = "returned")
      => \A i \in 1..Len(xp.docs) :
            LET d == xp.docs[i].id IN
            IF DocPaths(d) = {}
            THEN /\ Cardinality(RowsOf(d)) = 1
                 /\ \A k \in RowsOf(d) :
                       SubSeq(xp.rows[k], NBase + 1, NBase + 3) = <<"", "", "">>
            ELSE /\ Cardinality(RowsOf(d)) = Cardinality(DocPaths(d))
                 /\ \A path \in DocPaths(d) :
                       \E k \in RowsOf(d) : xp.rows[k][NBase + 1] = path

\* C18: the needs-review flag is true exactly when the overall confidence is
\* below its threshold, or the classification confidence is below its
\* threshold, or a required field is missing; and the flag stored on the
\* document by the upload is this value.
C18_NeedsReviewStored ==
    \A r \in Reqs :
        /\ req[r].pc = "updated"
              => /\ req[r].nr <=> \/ req[r].overall < OverallThreshold
                                  \/ req[r].ccf < ClassificationThreshold
                                  \/ req[r].missing # {}
                 /\ r \in DOMAIN documents => documents[r].needs_review = NrColumn(req[r].nr)
        /\ (Ended(r) /\ req[r].outcome = "processed" /\ r \in DOMAIN documents)
              => documents[r].needs_review = NrColumn(req[r].nr)

\* C19: when the processing block of an upload fails, the document ends marked
\* for review and no extraction record, flattened field or transaction written
\* by that run remains for it.
C19_FailedRunLeavesNothing ==
    \A r \in Reqs :
        (Ended(r) /\ req[r].outcome = "failed" /\ req[r].doc_id \in DOMAIN documents)
          => /\ documents[req[r].doc_id].status = "needs_review"
             /\ ~RefersTo(req[r].doc_id)

\* The run of classify_document found no text signal.
NoHit == hits_from(1, lower_text(cl.text)) = <<>>

\* C20: classify_document calls the Model Gateway exactly once when no text
\* signal hits and never when one hits; the result of the vision fallback has
\* method vision, and a doc_type or confidence the model omitted is unknown or
\* 0.5.
C20_VisionFallback ==
    /\ cl.pc \in {"returned", "raised", "raised_setdefault"}
          => cl.gateway_calls = IF NoHit THEN 1 ELSE 0
    /\ (cl.pc = "returned" /\ NoHit)
          => /\ cl.result.method = "vision"
             /\ cl.result.doc_type = IF "doc_type" \in cl.out.keys
                                      THEN cl.out.doc_type ELSE "unknown"
             /\ cl.result.confidence = IF "confidence" \in cl.out.keys
                                        THEN cl.out.confidence ELSE 50

\* C21: the all-documents wide export, interleaved with uploads that store
\* flattened fields and with deletes, never fails, and every row it writes is
\* as wide as its header.
C21_WideExportUnderWrites ==
    (xp.fn = "export_all_csv_wide" /\ xp.pc \in {"returned", "raised"})
      => /\ xp.pc = "returned"
         /\ \A i \in 1..Len(xp.rows) : Len(xp.rows[i]) = Len(xp.header)

\* C22: in the wide exports the header columns are pairwise distinct and the
\* base columns of a row hold the document's own metadata, whatever the
\* document's field paths are.
C22_BaseColumnsKept ==
    (xp.fn \in {"export_all_csv_wide", "export_doc_csv_wide"} /\ xp.pc = "returned")
      => /\ \A j, k \in 1..Len(xp.header) : xp.header[j] = xp.header[k] => j = k
         /\ \A i \in 1..Len(xp.rows) : \A j \in 1..NBase :
                xp.rows[i][j] = cell(_doc_row(xp.docs[i])[DOC_BASE_COLS[j]])

\* The upload created a document, finished, and the document was deleted.
Deleted(first) ==
    /\ req[first].pc = "done"
    /\ Created(first)
    /\ first \notin DOMAIN documents

\* The bytes of upload r were uploaded before, and every document created for
\* them has been deleted.
Released(r) ==
    /\ \E first \in Reqs \ {r} : SameBytes(r, first) /\ Deleted(first)
    /\ \A o \in Reqs \ {r} : SameBytes(r, o) => Deleted(o)

WithHash(docs, h) == {d \in DOMAIN docs : docs[d].file_hash = h}

\* C23: after an upload of some bytes and the deletion of the resulting
\* document, a further upload of the same bytes passes the duplicate check,
\* and, classification having returned, creates a new document under a new id
\* for its own stored file, to be extracted; the store then holds exactly one
\* document with that hash.
C23_DeletionReleasesHash ==
    [][\A r \in Reqs :
          Released(r) =>
            /\ (req[r].pc = "ingested" /\ req'[r].pc # "ingested")
                  => req'[r].pc = "checked"
            /\ (req[r].pc = "checked" /\ req'[r].pc # "checked"
                                      /\ req'[r].outcome # "classify_error")
                  => /\ req'[r].pc = "created"
                     /\ req'[r].doc_id \in DOMAIN documents' \ DOMAIN documents
                     /\ \A o \in Reqs \ {r} : req'[r].doc_id # req[o].doc_id
                     /\ documents'[req'[r].doc_id].file_path = req[r].dest_path
                     /\ documents'[req'[r].doc_id].status = "processing"
                     /\ req[r].dest_path \in files'
                     /\ WithHash(documents', req[r].file_hash) = {req'[r].doc_id}]_vars

\* C23 witness: the second upload of bytes whose first document was deleted
\* has been processed: its own document, file and extraction record exist.
C23_Witness ==
    \E r \in Reqs : \E first \in Reqs \ {r} :
        /\ Deleted(first)
        /\ SameBytes(r, first)
        /\ req[r].outcome = "processed"
        /\ WithHash(documents, req[first].file_hash) = {r}
        /\ documents[r].file_path = ingest_dest(req[r].file_hash, r)
        /\ documents[r].file_path \in files
        /\ \E e \in form_extractions : e.document_id = r

====
